---------------------------- MODULE Spec2Model ----------------------------
(***************************************************************************)
(* A model of src/main.py, the MassCode snippet search extension: the      *)
(* context history store (load, save, update with pruning) and the        *)
(* keyword query handler that ranks snippets.                              *)
(*                                                                         *)
(* Strings are sequences of one-character strings, so that lower() and    *)
(* strip() are computed.  A Python dict is a sequence of [k, v] entries   *)
(* in insertion order (dicts keep insertion order; json.load and          *)
(* json.dump keep it too).  The history file holds a sequence of JSON     *)
(* tokens: json.dump writes them, json.load parses them.                  *)
(***************************************************************************)
EXTENDS Integers, Sequences, FiniteSets, TLC

(***************************************************************************)
(* Bounds of the model.                                                    *)
(***************************************************************************)
\* src/main.py:45 sets MAX_HISTORY_QUERIES = 100.  The model scales the limit
\* down so that histories longer than the limit are reached; every formula
\* is stated in terms of the name, not of the value.
MAX_HISTORY_QUERIES == 3

\* A selection of a query the history already holds is recorded only while
\* the history holds fewer than MaxSelections selections (caps the counters;
\* a new query is always recorded, and pruning bounds the number of keys).
MaxSelections == 3

\* The extension processes that record a selection at the same time.
NumProcs == 2

(***************************************************************************)
(* Constants of the program.                                               *)
(***************************************************************************)
FUZZY_SCORE_THRESHOLD == 50
\* src/main.py:47 sets 8; the model keeps the rule and scales the number down
\* to the snippet sources it explores.
MAX_RESULTS == 2

(***************************************************************************)
(* Strings.                                                                *)
(***************************************************************************)
Lower(c) ==
    CASE c = "A" -> "a"
      [] c = "B" -> "b"
      [] c = "C" -> "c"
      [] OTHER -> c

\* str.lower()
lower(s) == [i \in 1..Len(s) |-> Lower(s[i])]

IsSpace(c) == c = " "

RECURSIVE lstrip(_)
lstrip(s) ==
    IF s # <<>> /\ IsSpace(Head(s)) THEN lstrip(Tail(s)) ELSE s

RECURSIVE rstrip(_)
rstrip(s) ==
    IF s # <<>> /\ IsSpace(s[Len(s)]) THEN rstrip(SubSeq(s, 1, Len(s) - 1)) ELSE s

\* str.strip()
strip(s) == rstrip(lstrip(s))

\* query.lower().strip()
normalize(query) == strip(lower(query))

\* a.startswith(b)
startswith(a, b) == Len(b) <= Len(a) /\ SubSeq(a, 1, Len(b)) = b

\* b in a, for strings
contains(a, b) ==
    \E i \in 0..(Len(a) - Len(b)) : SubSeq(a, i + 1, i + Len(b)) = b

(***************************************************************************)
(* Python dicts, as sequences of entries in insertion order.               *)
(***************************************************************************)
Entry(k, v) == [k |-> k, v |-> v]

Keys(d) == [i \in 1..Len(d) |-> d[i].k]

KeySet(d) == {d[i].k : i \in 1..Len(d)}

HasKey(d, k) == \E i \in 1..Len(d) : d[i].k = k

IndexOf(d, k) == CHOOSE i \in 1..Len(d) : d[i].k = k

\* d[k]
DictGet(d, k) == d[IndexOf(d, k)].v

\* d.get(k, default)
DictGetDefault(d, k, default) == IF HasKey(d, k) THEN DictGet(d, k) ELSE default

\* A mutant of DictSet: assigning to a key moves it to the end (an LRU order).
DictSetMoveToEnd(d, k, v) ==
    Append(SelectSeq(d, LAMBDA e : e.k # k), Entry(k, v))

\* d[k] = v: a key already present keeps its place, a new key goes last.
DictSet(d, k, v) ==
    IF HasKey(d, k)
    THEN [d EXCEPT ![IndexOf(d, k)] = Entry(k, v)]
    ELSE Append(d, Entry(k, v))

\* del d[k]
DictDel(d, k) == SelectSeq(d, LAMBDA e : e.k # k)

\* sum(d.values())
RECURSIVE SumValues(_)
SumValues(d) == IF d = <<>> THEN 0 ELSE Head(d).v + SumValues(Tail(d))

(***************************************************************************)
(* JSON text, as a sequence of tokens.                                     *)
(***************************************************************************)
Tok(t, s, n) == [t |-> t, s |-> s, n |-> n]
LBRACE == Tok("{", <<>>, 0)
RBRACE == Tok("}", <<>>, 0)
COLON == Tok(":", <<>>, 0)
COMMA == Tok(",", <<>>, 0)
StrTok(s) == Tok("str", s, 0)
NumTok(n) == Tok("num", <<>>, n)

\* A character as json.dump writes it inside a string.
EscapeChar(c) ==
    CASE c = "\"" -> <<"\\", "\"">>
      [] c = "\\" -> <<"\\", "\\">>
      [] c = "\n" -> <<"\\", "n">>
      [] OTHER -> <<c>>

\* The text json.dump writes between the quotes for the string s.
RECURSIVE Escape(_)
Escape(s) == IF s = <<>> THEN <<>> ELSE EscapeChar(Head(s)) \o Escape(Tail(s))

\* The string json.load reads from the text between the quotes.
RECURSIVE Unescape(_)
Unescape(s) ==
    IF s = <<>> THEN <<>>
    ELSE IF Head(s) = "\\" /\ Len(s) >= 2
    THEN <<IF s[2] = "n" THEN "\n" ELSE s[2]>> \o Unescape(SubSeq(s, 3, Len(s)))
    ELSE <<Head(s)>> \o Unescape(Tail(s))

\* The members of the inner object: "name": count, separated by commas.
RECURSIVE DumpCountMembers(_)
DumpCountMembers(d) ==
    IF d = <<>> THEN <<>>
    ELSE <<StrTok(Escape(Head(d).k)), COLON, NumTok(Head(d).v)>>
         \o (IF Tail(d) = <<>> THEN <<>> ELSE <<COMMA>>)
         \o DumpCountMembers(Tail(d))

\* The inner object: snippet name -> count.
DumpCounts(d) == <<LBRACE>> \o DumpCountMembers(d) \o <<RBRACE>>

\* The members of the outer object: "query": {...}, separated by commas.
RECURSIVE DumpHistoryMembers(_)
DumpHistoryMembers(d) ==
    IF d = <<>> THEN <<>>
    ELSE <<StrTok(Escape(Head(d).k)), COLON>> \o DumpCounts(Head(d).v)
         \o (IF Tail(d) = <<>> THEN <<>> ELSE <<COMMA>>)
         \o DumpHistoryMembers(Tail(d))

\* A mutant of json_dump: the keys are written in reverse order.
json_dump_reversed(history) ==
    <<LBRACE>>
    \o DumpHistoryMembers([i \in 1..Len(history) |-> history[Len(history) + 1 - i]])
    \o <<RBRACE>>

\* json.dump(history_data, f, indent=4, ensure_ascii=False): the keys in the
\* dict's order (white space is not a token).
json_dump(history) == <<LBRACE>> \o DumpHistoryMembers(history) \o <<RBRACE>>

ParseFail == [ok |-> FALSE, val |-> <<>>, next |-> 0]

\* The members of an inner object from position i on, up to its closing brace.
RECURSIVE ParseCountMembers(_, _, _)
ParseCountMembers(toks, i, acc) ==
    IF i + 3 > Len(toks) THEN ParseFail
    ELSE IF toks[i].t # "str" \/ toks[i + 1].t # ":" \/ toks[i + 2].t # "num"
    THEN ParseFail
    ELSE LET acc2 == DictSet(acc, Unescape(toks[i].s), toks[i + 2].n)
         IN  IF toks[i + 3].t = "}" THEN [ok |-> TRUE, val |-> acc2, next |-> i + 4]
             ELSE IF toks[i + 3].t = "," THEN ParseCountMembers(toks, i + 4, acc2)
             ELSE ParseFail

\* An inner object starting at position i.
ParseCounts(toks, i) ==
    IF i + 1 > Len(toks) \/ toks[i].t # "{" THEN ParseFail
    ELSE IF toks[i + 1].t = "}" THEN [ok |-> TRUE, val |-> <<>>, next |-> i + 2]
    ELSE ParseCountMembers(toks, i + 1, <<>>)

\* The members of the outer object from position i on.
RECURSIVE ParseHistoryMembers(_, _, _)
ParseHistoryMembers(toks, i, acc) ==
    IF i + 1 > Len(toks) THEN ParseFail
    ELSE IF toks[i].t # "str" \/ toks[i + 1].t # ":" THEN ParseFail
    ELSE LET inner == ParseCounts(toks, i + 2)
         IN  IF ~inner.ok \/ inner.next > Len(toks) THEN ParseFail
             ELSE LET acc2 == DictSet(acc, Unescape(toks[i].s), inner.val)
                  IN  IF toks[inner.next].t = "}"
                      THEN [ok |-> TRUE, val |-> acc2, next |-> inner.next + 1]
                      ELSE IF toks[inner.next].t = ","
                      THEN ParseHistoryMembers(toks, inner.next + 1, acc2)
                      ELSE ParseFail

\* A mutant of json_load: the parsed entries come back in reverse order.
json_load_reversed(toks) ==
    LET p == IF Len(toks) < 2 \/ toks[1].t # "{" THEN ParseFail
             ELSE IF toks[2].t = "}" THEN [ok |-> TRUE, val |-> <<>>, next |-> 3]
             ELSE ParseHistoryMembers(toks, 2, <<>>)
    IN  IF p.ok /\ p.next = Len(toks) + 1
        THEN [ok |-> TRUE, val |-> [i \in 1..Len(p.val) |-> p.val[Len(p.val) + 1 - i]]]
        ELSE [ok |-> FALSE, val |-> <<>>]

\* json.load(f) of a document query -> (snippet name -> count): ok is FALSE
\* where json.load raises JSONDecodeError (the empty text, a truncated text,
\* text after the document).
json_load(toks) ==
    LET p == IF Len(toks) < 2 \/ toks[1].t # "{" THEN ParseFail
             ELSE IF toks[2].t = "}" THEN [ok |-> TRUE, val |-> <<>>, next |-> 3]
             ELSE ParseHistoryMembers(toks, 2, <<>>)
    IN  IF p.ok /\ p.next = Len(toks) + 1
        THEN [ok |-> TRUE, val |-> p.val]
        ELSE [ok |-> FALSE, val |-> <<>>]

(***************************************************************************)
(* The history file (HISTORY_FILE) and the history store.                  *)
(***************************************************************************)
\* exists: os.path.exists(HISTORY_FILE); utf8: its bytes decode as UTF-8
\* (open(..., encoding="utf-8") reads them); text: its JSON tokens.
File(exists, utf8, text) == [exists |-> exists, utf8 |-> utf8, text |-> text]

NoFile == File(FALSE, TRUE, <<>>)

\* A mutant of save_context_history: nothing is written.
save_nothing(file, history_data) == file

\* save_context_history: the whole structure is written over the file.
save_context_history(file, history_data) == File(TRUE, TRUE, json_dump(history_data))

\* A mutant of load_context_history: a corrupted file is not reset.
load_without_reset(file) ==
    IF ~file.exists THEN [history |-> <<>>, file |-> file]
    ELSE IF ~file.utf8 THEN [history |-> <<>>, file |-> file]
    ELSE LET p == json_load(file.text)
         IN  IF p.ok THEN [history |-> p.val, file |-> file]
             ELSE [history |-> <<>>, file |-> file]

\* load_context_history: the history it returns and the file it leaves.
\* A missing file: {}.  Bytes that do not decode (the except Exception
\* branch): {}, the file is left.  JSONDecodeError: the file is reset to {}.
load_context_history(file) ==
    IF ~file.exists THEN [history |-> <<>>, file |-> file]
    ELSE IF ~file.utf8 THEN [history |-> <<>>, file |-> file]
    ELSE LET p == json_load(file.text)
         IN  IF p.ok THEN [history |-> p.val, file |-> file]
             ELSE [history |-> <<>>, file |-> save_context_history(file, <<>>)]

\* A mutant of Increment: the counter is set, not incremented.
IncrementSetsOne(history, normalized_query, snippet_name) ==
    LET h1 == IF HasKey(history, normalized_query) THEN history
              ELSE DictSet(history, normalized_query, <<>>)
    IN  DictSet(h1, normalized_query, DictSet(DictGet(h1, normalized_query), snippet_name, 1))

\* A mutant of Increment: the other counters of the query are dropped.
IncrementDropsOthers(history, normalized_query, snippet_name) ==
    DictSet(IF HasKey(history, normalized_query) THEN history
            ELSE DictSet(history, normalized_query, <<>>),
            normalized_query,
            <<Entry(snippet_name,
                    (IF HasKey(history, normalized_query)
                     THEN DictGetDefault(DictGet(history, normalized_query), snippet_name, 0)
                     ELSE 0) + 1)>>)

\* history[normalized_query][snippet_name] += 1, creating the entries.
Increment(history, normalized_query, snippet_name) ==
    LET h1 == IF HasKey(history, normalized_query) THEN history
              ELSE DictSet(history, normalized_query, <<>>)
        counts == DictGet(h1, normalized_query)
    IN  DictSet(h1, normalized_query,
                DictSet(counts, snippet_name, DictGetDefault(counts, snippet_name, 0) + 1))

\* keys[: -n] of a Python list, n >= 0 ([: -0] is [:0], the empty list).
SliceToMinus(keys, n) ==
    IF n = 0 THEN <<>>
    ELSE SubSeq(keys, 1, IF Len(keys) - n > 0 THEN Len(keys) - n ELSE 0)

RECURSIVE DeleteKeys(_, _)
DeleteKeys(d, keys) ==
    IF keys = <<>> THEN d ELSE DeleteKeys(DictDel(d, Head(keys)), Tail(keys))

\* A mutant of Prune: nothing is pruned.
PruneNothing(history) == history

\* A mutant of Prune: the newest keys are dropped.
PruneNewest(history) ==
    IF Len(history) > MAX_HISTORY_QUERIES
    THEN SubSeq(history, 1, MAX_HISTORY_QUERIES)
    ELSE history

\* if len(history) > MAX_HISTORY_QUERIES: delete keys()[: -MAX_HISTORY_QUERIES]
Prune(history) ==
    IF Len(history) > MAX_HISTORY_QUERIES
    THEN DeleteKeys(history, SliceToMinus(Keys(history), MAX_HISTORY_QUERIES))
    ELSE history

\* update_context_history: the file it leaves, the history it holds at its
\* end, and whether it reached save_context_history.
update_context_history(file, enabled, query, snippet_name) ==
    IF ~enabled THEN [file |-> file, history |-> <<>>, saved |-> FALSE]
    ELSE LET l == load_context_history(file)
             normalized_query == normalize(query)
         IN  IF normalized_query = <<>> \/ snippet_name = <<>>
             THEN [file |-> l.file, history |-> l.history, saved |-> FALSE]
             ELSE LET history == Prune(Increment(l.history, normalized_query, snippet_name))
                  IN  [file |-> save_context_history(l.file, history),
                       history |-> history, saved |-> TRUE]

\* MassCodeExtension.__init__: with contextual learning enabled, a missing
\* history file is created holding {}.
ensure_history_file_exists(file, enabled) ==
    IF enabled /\ ~file.exists THEN save_context_history(file, <<>>) ELSE file

(***************************************************************************)
(* Numbers.  A float the handler computes is kept as an exact fraction     *)
(* <<numerator, denominator>>, denominator > 0; the fused lexical score is *)
(* kept in tenths.                                                         *)
(***************************************************************************)
QLess(a, b) == a[1] * b[2] < b[1] * a[2]
QEq(a, b) == a[1] * b[2] = b[1] * a[2]
QLeq(a, b) == a[1] * b[2] <= b[1] * a[2]
\* max(a, b)
QMax(a, b) == IF QLess(a, b) THEN b ELSE a

IsDigit(c) == c \in {"0", "1", "2", "3", "4", "5", "6", "7", "8", "9"}

DigitValue(c) ==
    CASE c = "0" -> 0 [] c = "1" -> 1 [] c = "2" -> 2 [] c = "3" -> 3
      [] c = "4" -> 4 [] c = "5" -> 5 [] c = "6" -> 6 [] c = "7" -> 7
      [] c = "8" -> 8 [] c = "9" -> 9 [] OTHER -> 0

RECURSIVE DigitsValue(_)
DigitsValue(s) ==
    IF s = <<>> THEN 0 ELSE DigitsValue(SubSeq(s, 1, Len(s) - 1)) * 10 + DigitValue(s[Len(s)])

RECURSIVE Pow10(_)
Pow10(n) == IF n = 0 THEN 1 ELSE 10 * Pow10(n - 1)

AllDigits(s) == \A i \in 1..Len(s) : IsDigit(s[i])

\* float(s) of a decimal literal [+-]digits[.digits] (white space around it
\* is dropped): ok is FALSE where float raises ValueError.  Exponents, inf
\* and nan are not read: no preference of the model is written with them.
float(s) ==
    LET t == strip(s)
        neg == t # <<>> /\ Head(t) = "-"
        u == IF t # <<>> /\ Head(t) \in {"-", "+"} THEN Tail(t) ELSE t
        dots == {i \in 1..Len(u) : u[i] = "."}
        dot == IF dots = {} THEN Len(u) + 1 ELSE CHOOSE i \in dots : TRUE
        ip == SubSeq(u, 1, dot - 1)
        fp == SubSeq(u, dot + 1, Len(u))
    IN  IF Cardinality(dots) > 1 \/ ~AllDigits(ip) \/ ~AllDigits(fp) \/ Len(ip) + Len(fp) = 0
        THEN [ok |-> FALSE, val |-> <<0, 1>>]
        ELSE [ok |-> TRUE,
              val |-> <<(IF neg THEN -1 ELSE 1) * (DigitsValue(ip) * Pow10(Len(fp)) + DigitsValue(fp)),
                        Pow10(Len(fp))>>]

\* A mutant of SmartRatioThreshold: the range is not checked.
SmartRatioThresholdUnchecked(smart_ratio_str) ==
    IF float(smart_ratio_str).ok THEN float(smart_ratio_str).val ELSE <<0, 1>>

\* on_event, lines 413-424: the threshold, 0.0 when the preference is out of
\* range or does not parse.
SmartRatioThreshold(smart_ratio_str) ==
    LET f == float(smart_ratio_str)
    IN  IF ~f.ok THEN <<0, 1>>
        ELSE IF ~(QLeq(<<0, 1>>, f.val) /\ QLeq(f.val, <<1, 1>>)) THEN <<0, 1>>
        ELSE f.val

(***************************************************************************)
(* The snippet source.                                                     *)
(***************************************************************************)
\* A record of the source: its name, the values of its content fragments
\* (a plain string content is one fragment) and its isDeleted flag.
Snippet(name, fragments, isDeleted) ==
    [name |-> name, fragments |-> fragments, isDeleted |-> isDeleted]

\* The file at mc_db_path.  head: its first bytes ("sqlite": the SQLite magic,
\* "brace": a leading { or [, "other"); format: what it parses as ("json",
\* "sqlite" or "none"); records: the snippets it holds.
Source(exists, head, format, records) ==
    [exists |-> exists, head |-> head, format |-> format, records |-> records]

is_sqlite_file(source) == source.exists /\ source.head = "sqlite"

is_json_file(source) == source.exists /\ source.head = "brace"

Active(records) == SelectSeq(records, LAMBDA r : ~r.isDeleted)

\* load_snippets_json
load_snippets_json(source) ==
    IF ~source.exists THEN <<>>
    ELSE IF is_sqlite_file(source) THEN <<>>
    ELSE IF source.format = "json" THEN Active(source.records)
    ELSE <<>>

\* load_snippets_sqlite: a fragment with an empty value is not kept.
load_snippets_sqlite(source) ==
    IF ~source.exists THEN <<>>
    ELSE IF is_json_file(source) THEN <<>>
    ELSE IF source.format = "sqlite"
    THEN [i \in 1..Len(Active(source.records)) |->
            [Active(source.records)[i] EXCEPT
                !.fragments = SelectSeq(@, LAMBDA v : v # <<>>)]]
    ELSE <<>>

\* load_snippets
load_snippets(masscode_version, source) ==
    IF masscode_version = "v4" THEN load_snippets_sqlite(source)
    ELSE load_snippets_json(source)

\* "\n".join(values)
RECURSIVE JoinLines(_)
JoinLines(values) ==
    IF values = <<>> THEN <<>>
    ELSE IF Len(values) = 1 THEN values[1]
    ELSE values[1] \o <<"\n">> \o JoinLines(Tail(values))

(***************************************************************************)
(* The keyword query handler.                                              *)
(***************************************************************************)
\* A mutant of Relevance: the similarity rule is tried first.
RelevanceFuzzyFirst(normalized_query, hist_query, fuzz) ==
    IF /\ Len(normalized_query) > 3 /\ Len(hist_query) > 3
       /\ fuzz.available /\ fuzz.ratio > 85
    THEN <<7 * fuzz.ratio, 1000>>
    ELSE IF hist_query = normalized_query THEN <<1, 1>>
    ELSE IF Len(normalized_query) > 2 /\ startswith(hist_query, normalized_query)
    THEN <<9 * Len(normalized_query), 10 * Len(hist_query)>>
    ELSE IF Len(hist_query) > 2 /\ startswith(normalized_query, hist_query)
    THEN <<8 * Len(hist_query), 10 * Len(normalized_query)>>
    ELSE <<0, 1>>

\* The relevance of one historical query (lines 664-683): the first rule
\* that applies.  fuzz.available is FALSE when fuzzywuzzy is missing (the
\* NameError is passed over); fuzz.ratio is what fuzz.ratio returns.
Relevance(normalized_query, hist_query, fuzz) ==
    IF hist_query = normalized_query THEN <<1, 1>>
    ELSE IF Len(normalized_query) > 2 /\ startswith(hist_query, normalized_query)
    THEN <<9 * Len(normalized_query), 10 * Len(hist_query)>>
    ELSE IF Len(hist_query) > 2 /\ startswith(normalized_query, hist_query)
    THEN <<8 * Len(hist_query), 10 * Len(normalized_query)>>
    ELSE IF Len(normalized_query) > 3 /\ Len(hist_query) > 3
    THEN IF fuzz.available /\ fuzz.ratio > 85 THEN <<7 * fuzz.ratio, 1000>> ELSE <<0, 1>>
    ELSE <<0, 1>>

RECURSIVE RelevantFrom(_, _, _, _)
RelevantFrom(normalized_query, history, fuzz, relevant_contexts) ==
    IF history = <<>> THEN relevant_contexts
    ELSE LET hist_query == Head(history).k
             relevance == Relevance(normalized_query, hist_query, fuzz)
             keep == /\ QLess(<<0, 1>>, relevance)
                     /\ \/ ~HasKey(relevant_contexts, hist_query)
                        \/ QLess(DictGet(relevant_contexts, hist_query).relevance, relevance)
         IN  RelevantFrom(normalized_query, Tail(history), fuzz,
                          IF keep
                          THEN DictSet(relevant_contexts, hist_query,
                                       [snippets |-> Head(history).v, relevance |-> relevance])
                          ELSE relevant_contexts)

\* _find_relevant_contexts
find_relevant_contexts(query, context_history, fuzz) ==
    IF normalize(query) = <<>> THEN <<>>
    ELSE RelevantFrom(normalize(query), context_history, fuzz, <<>>)

\* The fused lexical score of the i-th snippet, in tenths (lines 488-518).
\* fuzz.title[i] and fuzz.content[i] are what fuzz.partial_ratio returns for
\* its name and its content.
CombinedScore10(query, name, content_text, fuzz, i) ==
    IF query = <<>> THEN 1000
    ELSE IF fuzz.available
    THEN 7 * fuzz.title[i] + 3 * (IF content_text # <<>> THEN fuzz.content[i] ELSE 0)
    ELSE IF \/ contains(lower(name), lower(query))
            \/ (content_text # <<>> /\ contains(lower(content_text), lower(query)))
    THEN 510
    ELSE 0

\* A mutant of ContextScore: the candidates are added up.
RECURSIVE ContextScoreSum(_, _)
ContextScoreSum(name, relevant_contexts) ==
    IF relevant_contexts = <<>> THEN <<0, 1>>
    ELSE LET c == Head(relevant_contexts).v
             rest == ContextScoreSum(name, Tail(relevant_contexts))
         IN  IF HasKey(c.snippets, name)
             THEN <<DictGet(c.snippets, name) * c.relevance[1] * 100 * rest[2]
                        + rest[1] * c.relevance[2],
                    c.relevance[2] * rest[2]>>
             ELSE rest

\* The context score of a snippet name (lines 520-529).
RECURSIVE ContextScore(_, _)
ContextScore(name, relevant_contexts) ==
    IF relevant_contexts = <<>> THEN <<0, 1>>
    ELSE LET c == Head(relevant_contexts).v
             rest == ContextScore(name, Tail(relevant_contexts))
         IN  IF HasKey(c.snippets, name)
             THEN QMax(<<DictGet(c.snippets, name) * c.relevance[1] * 100, c.relevance[2]>>,
                       rest)
             ELSE rest

\* The match of the i-th snippet (lines 479-537).
Match(query, snippets, relevant_contexts, fuzz, i) ==
    LET name == snippets[i].name
        content_text == JoinLines(snippets[i].fragments)
    IN  [name |-> name,
         content |-> content_text,
         fuzzy_score |-> CombinedScore10(query, name, content_text, fuzz, i),
         context_score |-> ContextScore(name, relevant_contexts)]

\* A mutant of Admitted: a score equal to the threshold is not admitted.
AdmittedAbove(query, match) ==
    match.fuzzy_score > FUZZY_SCORE_THRESHOLD * 10 \/ query = <<>>

\* combined_score >= FUZZY_SCORE_THRESHOLD or not query
Admitted(query, match) ==
    match.fuzzy_score >= FUZZY_SCORE_THRESHOLD * 10 \/ query = <<>>

\* A mutant of KeyGreater: the lexical score is the first key.
KeyGreaterLexicalFirst(a, b) ==
    \/ a.fuzzy_score > b.fuzzy_score
    \/ a.fuzzy_score = b.fuzzy_score /\ QLess(b.context_score, a.context_score)

\* (context_score, fuzzy_score) of a is greater than that of b.
KeyGreater(a, b) ==
    \/ QLess(b.context_score, a.context_score)
    \/ QEq(a.context_score, b.context_score) /\ a.fuzzy_score > b.fuzzy_score

RECURSIVE InsertMatch(_, _)
InsertMatch(sorted, x) ==
    IF sorted = <<>> THEN <<x>>
    ELSE IF KeyGreater(x, Head(sorted)) THEN <<x>> \o sorted
    ELSE <<Head(sorted)>> \o InsertMatch(Tail(sorted), x)

\* matches.sort(key=..., reverse=True): stable, descending.
RECURSIVE SortMatches(_, _)
SortMatches(sorted, matches) ==
    IF matches = <<>> THEN sorted
    ELSE SortMatches(InsertMatch(sorted, Head(matches)), Tail(matches))

\* The first match the history of the query favours enough (lines 560-585),
\* as a list; <<>> when there is none.
RECURSIVE Dominant(_, _, _, _)
Dominant(matches, query_specific_history, total, threshold) ==
    IF matches = <<>> THEN <<>>
    ELSE IF /\ HasKey(query_specific_history, Head(matches).name)
            /\ QLeq(threshold, <<DictGet(query_specific_history, Head(matches).name), total>>)
    THEN <<Head(matches)>>
    ELSE Dominant(Tail(matches), query_specific_history, total, threshold)

\* A mutant of SmartSingleResult: the best ranked match is kept without a
\* look at its share of the selections.
SmartSingleResultFirst(enabled, threshold, query, context_history, matches) ==
    IF /\ enabled /\ QLess(<<0, 1>>, threshold)
       /\ HasKey(context_history, normalize(query)) /\ matches # <<>>
    THEN <<Head(matches)>>
    ELSE matches

\* A mutant of SmartSingleResult: a threshold of 0 does not disable it.
SmartSingleResultFromZero(enabled, threshold, query, context_history, matches) ==
    IF /\ enabled /\ QLeq(<<0, 1>>, threshold)
       /\ HasKey(context_history, normalize(query)) /\ matches # <<>>
    THEN LET query_specific_history == DictGet(context_history, normalize(query))
             total == SumValues(query_specific_history)
             found == IF total > 0
                      THEN Dominant(matches, query_specific_history, total, threshold)
                      ELSE <<>>
         IN  IF found # <<>> THEN found ELSE matches
    ELSE matches

\* The smart single result feature (lines 544-586).
SmartSingleResult(enabled, threshold, query, context_history, matches) ==
    IF /\ enabled /\ QLess(<<0, 1>>, threshold)
       /\ HasKey(context_history, normalize(query)) /\ matches # <<>>
    THEN LET query_specific_history == DictGet(context_history, normalize(query))
             total == SumValues(query_specific_history)
             found == IF total > 0
                      THEN Dominant(matches, query_specific_history, total, threshold)
                      ELSE <<>>
         IN  IF found # <<>> THEN found ELSE matches
    ELSE matches

\* matches[:MAX_RESULTS]
Take(s, n) == SubSeq(s, 1, IF Len(s) < n THEN Len(s) ELSE n)

NoSearch ==
    [title |-> "", snippets |-> <<>>, relevant_contexts |-> <<>>,
     all |-> <<>>, admitted |-> <<>>, matches |-> <<>>, final |-> <<>>,
     items |-> <<>>]

Message(title, snippets) == [NoSearch EXCEPT !.title = title, !.snippets = snippets]

\* A mutant of ShowResults: the history is written back without its first
\* query.
ShowResultsWriting(l, snippets, relevant_contexts, all, admitted, matches, final) ==
    [file |-> save_context_history(l.file, IF l.history = <<>> THEN <<>> ELSE Tail(l.history)),
     history |-> l.history,
     out |-> [title |-> IF Take(final, MAX_RESULTS) = <<>> THEN "No results" ELSE "",
              snippets |-> snippets,
              relevant_contexts |-> relevant_contexts,
              all |-> all,
              admitted |-> admitted,
              matches |-> matches,
              final |-> final,
              items |-> Take(final, MAX_RESULTS)]]

\* Lines 589-636: the items shown, "No results" when there is none.  l is
\* what load_context_history returned.
ShowResults(l, snippets, relevant_contexts, all, admitted, matches, final) ==
    [file |-> l.file, history |-> l.history,
     out |-> [title |-> IF Take(final, MAX_RESULTS) = <<>> THEN "No results" ELSE "",
              snippets |-> snippets,
              relevant_contexts |-> relevant_contexts,
              all |-> all,
              admitted |-> admitted,
              matches |-> matches,
              final |-> final,
              items |-> Take(final, MAX_RESULTS)]]

\* Lines 539-586: the sort, then the smart single result.
SortAndCollapse(enabled, smart_ratio_str, query, l, snippets, relevant_contexts, all, admitted, matches) ==
    ShowResults(l, snippets, relevant_contexts, all, admitted, matches,
                SmartSingleResult(enabled, SmartRatioThreshold(smart_ratio_str),
                                  query, l.history, matches))

\* Lines 531-542: the matches admitted, then sorted.
AdmitMatches(enabled, smart_ratio_str, query, l, snippets, relevant_contexts, all) ==
    SortAndCollapse(enabled, smart_ratio_str, query, l, snippets, relevant_contexts,
                    all, SelectSeq(all, LAMBDA m : Admitted(query, m)),
                    SortMatches(<<>>, SelectSeq(all, LAMBDA m : Admitted(query, m))))

\* Lines 478-537: a match for every snippet.
ScoreSnippets(enabled, smart_ratio_str, fuzz, query, l, snippets, relevant_contexts) ==
    AdmitMatches(enabled, smart_ratio_str, query, l, snippets, relevant_contexts,
                 [i \in 1..Len(snippets) |->
                     Match(query, snippets, relevant_contexts, fuzz, i)])

\* Lines 469-476: the relevant contexts of the history, when there is one.
FindContexts(enabled, smart_ratio_str, fuzz, query, l, snippets) ==
    ScoreSnippets(enabled, smart_ratio_str, fuzz, query, l, snippets,
                  IF enabled /\ l.history # <<>>
                  THEN find_relevant_contexts(query, l.history, fuzz)
                  ELSE <<>>)

\* A mutant of LoadErrorTitle: the file is not looked at.
LoadErrorTitleByVersion(masscode_version, source) ==
    IF masscode_version = "v4" THEN "SQLite Database Error" ELSE "JSON Database Error"

\* Lines 434-467: the message shown when no snippet was loaded.
LoadErrorTitle(masscode_version, source) ==
    IF source.exists /\ masscode_version = "v4" /\ is_json_file(source)
    THEN "Version Mismatch Error"
    ELSE IF source.exists /\ masscode_version # "v4" /\ is_sqlite_file(source)
    THEN "Version Mismatch Error"
    ELSE IF masscode_version = "v4" THEN "SQLite Database Error"
    ELSE "JSON Database Error"

\* KeywordQueryEventListener.on_event: the file it leaves, the history it
\* held and what it shows.  title is "" for a result list, the title of the
\* message otherwise.
on_event(file, enabled, smart_ratio_str, db_path_set, masscode_version, source, fuzz, query) ==
    IF ~db_path_set
    THEN [file |-> file, history |-> <<>>,
          out |-> Message("Configuration required", <<>>)]
    ELSE IF load_snippets(masscode_version, source) = <<>>
    THEN [file |-> file, history |-> <<>>,
          out |-> Message(LoadErrorTitle(masscode_version, source), <<>>)]
    ELSE FindContexts(enabled, smart_ratio_str, fuzz, query,
                      IF enabled THEN load_context_history(file)
                      ELSE [history |-> <<>>, file |-> file],
                      load_snippets(masscode_version, source))

(***************************************************************************)
(* The state.                                                              *)
(***************************************************************************)
VARIABLES
    file,   \* the history file on disk
    pre,    \* the history file as the last operation found it
    op,     \* the last operation: its kind, the preferences and arguments it read
    hist,   \* the history the last operation held in memory at its end
    insertion_order,
            \* the queries the file holds, by the time each was (last) inserted:
            \* kept beside the code, which never reads it
    req,    \* what else the last keyword query read: preferences, snippet
            \* source, fuzzywuzzy's answers
    out,    \* what the last keyword query computed and showed
    proc,   \* the extension processes that run update_context_history side by
            \* side: where each one is and what it holds
    reported
            \* the selections <<normalized query, snippet name>> recorded with
            \* success whose query was not evicted since: kept beside the code,
            \* which never reads it

vars == <<file, pre, op, hist, insertion_order, req, out, proc, reported>>

Op(kind, enabled, query, snippet_name, saved) ==
    [kind |-> kind, enabled |-> enabled, query |-> query,
     snippet_name |-> snippet_name, saved |-> saved]

Idle == Op("idle", FALSE, <<>>, <<>>, FALSE)

\* fuzzywuzzy: available is FALSE when the import failed; title[i] and
\* content[i] are the partial_ratio of the query with the name and with the
\* content of the i-th loaded snippet, ratio the ratio of the query with a
\* historical query.
Fuzz(available, title, content, ratio) ==
    [available |-> available, title |-> title, content |-> content, ratio |-> ratio]

Req(smart_ratio_str, db_path_set, masscode_version, source, fuzz) ==
    [smart_ratio_str |-> smart_ratio_str, db_path_set |-> db_path_set,
     masscode_version |-> masscode_version, source |-> source, fuzz |-> fuzz]

NoReq ==
    Req(<<>>, FALSE, "v3", Source(FALSE, "other", "none", <<>>),
        Fuzz(FALSE, <<>>, <<>>, 0))

\* A process in update_context_history: pc is "idle" before the call,
\* "loaded" between load_context_history and the rest, "done" after it;
\* history is what it loaded.  stale (kept beside the code) tells that
\* another process has saved since this one loaded.
Proc(pc, query, snippet_name, history, stale) ==
    [pc |-> pc, query |-> query, snippet_name |-> snippet_name,
     history |-> history, stale |-> stale]

Procs == 1..NumProcs

NoProcs == [p \in Procs |-> Proc("idle", <<>>, <<>>, <<>>, FALSE)]

(***************************************************************************)
(* The inputs of the specifications.                                       *)
(***************************************************************************)
Letters == <<"a", "b", "c", "d", "e", "f", "g">>

\* One more normalized query than the history may hold.
StoreQueries == {<<Letters[i]>> : i \in 1..(MAX_HISTORY_QUERIES + 1)}

\* The calls of update_context_history: <<enabled, query, snippet_name>>.
\* Every query is selected with the snippet A; the first one, written with
\* capitals and spaces, with B too.
StoreCalls ==
    ({TRUE} \X StoreQueries \X {<<"A">>})
    \cup {<<TRUE, <<" ", "A", " ">>, <<"B">>>>,
          <<TRUE, <<>>, <<"A">>>>,
          <<TRUE, <<" ">>, <<"A">>>>,
          <<TRUE, <<"a">>, <<>>>>,
          <<FALSE, <<"a">>, <<"A">>>>,
          <<FALSE, <<>>, <<>>>>}

\* A document json.dump wrote, cut short.
TruncatedText == SubSeq(json_dump(<<Entry(<<"a">>, <<Entry(<<"A">>, 1)>>)>>), 1, 6)

\* The history file as the extension may find it when it starts: missing,
\* holding {}, empty, cut short, or bytes that are not UTF-8.
DiskFiles ==
    {NoFile,
     File(TRUE, TRUE, json_dump(<<>>)),
     File(TRUE, TRUE, <<>>),
     File(TRUE, TRUE, TruncatedText),
     File(TRUE, FALSE, <<>>)}

\* The snippet source: a flat (JSON) document of four snippets; B has two
\* fragments, C has no content, D is deleted.
Snippets ==
    <<Snippet(<<"A">>, << <<"a", "b", "c", "d">> >>, FALSE),
      Snippet(<<"D">>, << <<"a", "b", "c">> >>, TRUE),
      Snippet(<<"B">>, << <<"a", "b">>, <<"c", "d">> >>, FALSE),
      Snippet(<<"C">>, <<>>, FALSE)>>

JsonSource == Source(TRUE, "brace", "json", Snippets)

\* A relational (SQLite) file of the same snippets.
SqliteSource == Source(TRUE, "sqlite", "sqlite", Snippets)

\* The histories of at most two of the queries K, each with one of the
\* counters I.
HistoriesOver(K, I) ==
    {<<>>}
    \cup {<<Entry(k, i)>> : k \in K, i \in I}
    \cup {<<Entry(k[1], i[1]), Entry(k[2], i[2])>> :
            k \in {x \in K \X K : x[1] # x[2]}, i \in I \X I}

\* The history files that hold them.
FilesOf(histories) == {save_context_history(NoFile, h) : h \in histories}

\* The keyword queries of the history store's specification:
\* <<enabled, smart_ratio_str, db_path_set, masscode_version, source, fuzz, query>>.
StoreSearches ==
    {<<TRUE, <<"0", ".", "5">>, TRUE, "v3", JsonSource,
       Fuzz(TRUE, <<100, 50, 0>>, <<100, 50, 0>>, 0), <<"a">>>>,
     <<TRUE, <<"0", ".", "5">>, TRUE, "v3", Source(FALSE, "other", "none", <<>>),
       Fuzz(TRUE, <<>>, <<>>, 0), <<"a">>>>,
     <<FALSE, <<"0", ".", "5">>, TRUE, "v3", JsonSource,
       Fuzz(TRUE, <<100, 50, 0>>, <<100, 50, 0>>, 0), <<"a">>>>}

\* The history a load of the file would return, the file left alone.
Persisted(f) ==
    IF f.exists /\ f.utf8 /\ json_load(f.text).ok THEN json_load(f.text).val ELSE <<>>

\* The selections a history holds.
RECURSIVE Selections(_)
Selections(history) ==
    IF history = <<>> THEN 0 ELSE SumValues(Head(history).v) + Selections(Tail(history))

InSeq(s, x) == \E i \in 1..Len(s) : s[i] = x

\* The queries a record of the query inserted evicts (lines 386-390): none
\* when the history holds it or has room, the earliest inserted ones
\* otherwise.
Evicted(order, inserted) ==
    IF InSeq(order, inserted) \/ Len(order) < MAX_HISTORY_QUERIES THEN {}
    ELSE {order[i] : i \in 1..(Len(order) + 1 - MAX_HISTORY_QUERIES)}

\* The insertion order after an operation: a query recorded while absent goes
\* last, and the queries the file no longer holds are dropped.
InsertionOrder(order, inserted, f) ==
    SelectSeq(IF inserted = <<>> \/ InSeq(order, inserted) THEN order
              ELSE Append(order, inserted),
              LAMBDA k : HasKey(Persisted(f), k))

(***************************************************************************)
(* The operations.                                                         *)
(***************************************************************************)
\* MassCodeExtension.__init__ on one of the files the disk may hold.
Init ==
    /\ \E f \in DiskFiles, enabled \in BOOLEAN :
          /\ file = ensure_history_file_exists(f, enabled)
          /\ pre = f
          /\ op = Op("init", enabled, <<>>, <<>>, FALSE)
    /\ hist = <<>>
    /\ insertion_order = <<>>
    /\ req = NoReq
    /\ out = NoSearch
    /\ proc = NoProcs
    /\ reported = {}

\* The extension waits for an event, the disk holding one of the files.
InitOn(files) ==
    /\ file \in files
    /\ pre = file
    /\ op = Idle
    /\ hist = <<>>
    /\ insertion_order = Keys(Persisted(file))
    /\ req = NoReq
    /\ out = NoSearch
    /\ proc = NoProcs
    /\ reported = {}

\* ItemEnterEventListener.on_event with data {action: record_history, query,
\* snippet_name}: update_context_history(query, snippet_name).
ItemEnter(enabled, query, snippet_name) ==
    LET u == update_context_history(file, enabled, query, snippet_name)
    IN  /\ op.kind = "idle"
        /\ (u.saved /\ HasKey(Persisted(file), normalize(query)))
              => Selections(Persisted(file)) < MaxSelections
        /\ file' = u.file
        /\ pre' = file
        /\ op' = Op("record", enabled, query, snippet_name, u.saved)
        /\ hist' = u.history
        /\ insertion_order' =
              InsertionOrder(insertion_order,
                             IF u.saved THEN normalize(query) ELSE <<>>, u.file)
        /\ req' = NoReq
        /\ out' = NoSearch
        /\ reported' =
              IF u.saved
              THEN {r \in reported : r[1] \notin Evicted(insertion_order, normalize(query))}
                       \cup {<<normalize(query), snippet_name>>}
              ELSE reported
        /\ UNCHANGED proc

\* KeywordQueryEventListener.on_event.
KeywordQuery(enabled, smart_ratio_str, db_path_set, masscode_version, source, fuzz, query) ==
    LET r == on_event(file, enabled, smart_ratio_str, db_path_set,
                      masscode_version, source, fuzz, query)
    IN  /\ op.kind = "idle"
        /\ file' = r.file
        /\ pre' = file
        /\ op' = Op("search", enabled, query, <<>>, FALSE)
        /\ hist' = r.history
        /\ insertion_order' = InsertionOrder(insertion_order, <<>>, r.file)
        /\ req' = Req(smart_ratio_str, db_path_set, masscode_version, source, fuzz)
        /\ out' = r.out
        /\ UNCHANGED <<proc, reported>>

\* A call of save_context_history.
SaveHistory(history_data) ==
    /\ op.kind = "idle"
    /\ file' = save_context_history(file, history_data)
    /\ pre' = file
    /\ op' = Op("save", TRUE, <<>>, <<>>, TRUE)
    /\ hist' = history_data
    /\ insertion_order' = Keys(history_data)
    /\ req' = NoReq
    /\ out' = NoSearch
    /\ UNCHANGED <<proc, reported>>

\* A call of load_context_history.
LoadHistory ==
    LET l == load_context_history(file)
    IN  /\ op.kind \in {"idle", "save"}
        /\ file' = l.file
        /\ pre' = file
        /\ op' = Op("load", TRUE, <<>>, <<>>, FALSE)
        /\ hist' = l.history
        /\ insertion_order' = InsertionOrder(insertion_order, <<>>, l.file)
        /\ req' = NoReq
        /\ out' = NoSearch
        /\ UNCHANGED <<proc, reported>>

\* The handler returns to Ulauncher's event loop: what it held is dropped,
\* the file stays.
Return ==
    /\ op.kind # "idle"
    /\ file' = file
    /\ pre' = file
    /\ op' = Idle
    /\ hist' = <<>>
    /\ req' = NoReq
    /\ out' = NoSearch
    /\ UNCHANGED <<proc, reported>>
    /\ UNCHANGED insertion_order

Next ==
    \/ \E c \in StoreCalls : ItemEnter(c[1], c[2], c[3])
    \/ \E c \in StoreSearches : KeywordQuery(c[1], c[2], c[3], c[4], c[5], c[6], c[7])
    \/ Return

Spec == Init /\ [][Next]_vars

(***************************************************************************)
(* The specification of the persistence: save_context_history and          *)
(* load_context_history on their own.                                      *)
(***************************************************************************)
\* The counters of one query: empty, one name, two names in either order;
\* one name holds a quote and a backslash, another is not ASCII.
PersistCounters ==
    {<<>>,
     <<Entry(<<"A">>, 1)>>,
     <<Entry(<<"\"", "\\">>, 3)>>,
     <<Entry(<<"A">>, 2), Entry(<<"é">>, 1)>>,
     <<Entry(<<"é">>, 1), Entry(<<"A">>, 2)>>}

PersistQueries == {<<"a">>, <<"b", " ", "c">>, <<"\n">>}

PersistHistories == HistoriesOver(PersistQueries, PersistCounters)

InitPersist == InitOn(DiskFiles)

NextPersist ==
    \/ \E h \in PersistHistories : SaveHistory(h)
    \/ LoadHistory
    \/ Return

SpecPersist == InitPersist /\ [][NextPersist]_vars

(***************************************************************************)
(* The specification of the ranking: keyword queries over the snippets A,  *)
(* B and C, with the histories of the queries abc and abcd.                *)
(***************************************************************************)
\* The counters of one query.  The context scores they give are apart from
\* each other as exact numbers, so that the floating point products are in
\* the same order (they are not for all counters: 5 * ((3 / 4) * 0.8) * 100 is
\* 300.00000000000006, above 3 * 1.0 * 100).
RankCounters ==
    {<<Entry(<<"A">>, 3), Entry(<<"B">>, 1)>>,
     <<Entry(<<"A">>, 1), Entry(<<"B">>, 2)>>,
     <<Entry(<<"A">>, 4)>>,
     <<Entry(<<"C">>, 2), Entry(<<"E">>, 2)>>}

RankHistories ==
    HistoriesOver({<<"a", "b", "c">>, <<"a", "b", "c", "d">>}, RankCounters)

RankQueries ==
    {<<>>, <<" ">>, <<"a", "b", "c">>, <<" ", "A", "B", "C", " ">>,
     <<"a", "b", "c", "d">>}

\* <<enabled, smart_ratio_str>>
RankPreferences ==
    ({TRUE} \X {<<"0", ".", "0">>, <<"0", ".", "5">>, <<"0", ".", "8">>,
                <<"1">>, <<"1", ".", "5">>, <<"x">>})
    \cup {<<FALSE, <<"0", ".", "5">>>>}

\* What partial_ratio may return for a name and a content: <<title, content>>.
\* For these, 0.7 * title + 0.3 * content is the same number in floating
\* point as in tenths; it is not for all (0.7 * 53 + 0.3 * 43 is
\* 49.99999999999999).
ScorePairs == {<<0, 0>>, <<50, 49>>, <<50, 50>>, <<100, 100>>}

RankFuzz ==
    {Fuzz(TRUE, <<a[1], b[1], c>>, <<a[2], b[2], 0>>, 0) :
        a \in ScorePairs, b \in ScorePairs, c \in {0, 100}}
    \cup {Fuzz(FALSE, <<0, 0, 0>>, <<0, 0, 0>>, 0)}

InitRank == InitOn(FilesOf(RankHistories))

NextRank ==
    \/ \E p \in RankPreferences, f \in RankFuzz, q \in RankQueries :
          KeywordQuery(p[1], p[2], TRUE, "v3", JsonSource, f, q)
    \/ Return

SpecRank == InitRank /\ [][NextRank]_vars

(***************************************************************************)
(* The specification of the context engine: keyword queries against the    *)
(* histories of queries that are equal to, prefixes of, extensions of or   *)
(* similar to the query.                                                   *)
(***************************************************************************)
ContextQueries ==
    {<<"a", "b">>, <<"a", "b", "c">>, <<"a", "b", "c", "d">>,
     <<"a", "b", "c", "d", "e">>, <<"x", "b", "c", "d">>}

ContextHistories == HistoriesOver(ContextQueries, {<<Entry(<<"A">>, 1)>>})

ContextInputs ==
    {<<>>, <<" ">>, <<"a", "b">>, <<"a", "b", "c">>, <<" ", "A", "B", "C", " ">>,
     <<"a", "b", "c", "d">>, <<"a", "b", "c", "d", "e">>}

\* fuzz.ratio may return any number of 0..100.
ContextFuzz ==
    {Fuzz(TRUE, <<100, 100, 100>>, <<100, 100, 0>>, r) : r \in {0, 85, 86, 100}}
    \cup {Fuzz(FALSE, <<0, 0, 0>>, <<0, 0, 0>>, 0)}

InitContext == InitOn(FilesOf(ContextHistories))

NextContext ==
    \/ \E enabled \in BOOLEAN, f \in ContextFuzz, q \in ContextInputs :
          KeywordQuery(enabled, <<"0">>, TRUE, "v4", SqliteSource, f, q)
    \/ Return

SpecContext == InitContext /\ [][NextContext]_vars

(***************************************************************************)
(* The history store's properties.                                         *)
(***************************************************************************)
Recorded == op.kind = "record" /\ op.saved

\* history[q][s], 0 when absent.
Count(history, q, s) ==
    IF HasKey(history, q) THEN DictGetDefault(DictGet(history, q), s, 0) ELSE 0

NamesIn(history) ==
    UNION {KeySet(history[i].v) : i \in 1..Len(history)}

\* C1: the persisted history never holds more than MAX_HISTORY_QUERIES query
\* keys, whatever calls of update_context_history were made since the file
\* was missing or empty.
C1_HistoryNeverExceedsMax == Len(Persisted(file)) <= MAX_HISTORY_QUERIES

\* A new query was recorded into a full history, which is full still.
C1_Witness ==
    /\ Recorded
    /\ Len(Persisted(pre)) = MAX_HISTORY_QUERIES
    /\ ~HasKey(Persisted(pre), normalize(op.query))
    /\ Len(Persisted(file)) = MAX_HISTORY_QUERIES

\* C2: eviction is FIFO by insertion order and an update does not refresh a
\* key: the file lists its keys in insertion order, and a recording call
\* that makes the history exceed MAX_HISTORY_QUERIES removes exactly the
\* earliest-inserted keys beyond the limit (no call removes any other key),
\* so that exactly MAX_HISTORY_QUERIES keys remain, the last ones inserted.
C2_FifoStep ==
    (op'.kind = "record" /\ op'.saved) =>
        LET q == normalize(op'.query)
            order == IF InSeq(insertion_order, q) THEN insertion_order
                     ELSE Append(insertion_order, q)
            excess == IF Len(order) > MAX_HISTORY_QUERIES
                      THEN Len(order) - MAX_HISTORY_QUERIES ELSE 0
        IN  Keys(Persisted(file')) = SubSeq(order, excess + 1, Len(order))

C2_FifoEviction == [][C2_FifoStep]_vars

\* The first query of a full history was selected twice, the others once,
\* and a new query has evicted it all the same.
C2_Witness ==
    /\ Recorded
    /\ Len(Persisted(pre)) = MAX_HISTORY_QUERIES
    /\ SumValues(Persisted(pre)[1].v) >= 2
    /\ \A i \in 2..Len(Persisted(pre)) : SumValues(Persisted(pre)[i].v) = 1
    /\ ~HasKey(Persisted(file), Persisted(pre)[1].k)
    /\ Keys(Persisted(file)) = Tail(Keys(Persisted(pre))) \o <<normalize(op.query)>>

\* C3: with contextual learning enabled, a call with a non-empty normalized
\* query q and a non-empty snippet name s adds one to history[q][s] (1 when
\* absent), keeps q, leaves every other counter of every key that remains as
\* it was, adds no other key, and the file holds exactly the resulting
\* structure.
C3_RecordIncrementsOnce ==
    (op.kind = "record" /\ op.enabled
        /\ normalize(op.query) # <<>> /\ op.snippet_name # <<>>) =>
        LET before == load_context_history(pre).history
            after == Persisted(file)
            q == normalize(op.query)
            s == op.snippet_name
        IN  /\ op.saved
            /\ HasKey(after, q)
            /\ Count(after, q, s) = Count(before, q, s) + 1
            /\ KeySet(after) \subseteq KeySet(before) \cup {q}
            /\ \A k \in KeySet(after) : \A n \in NamesIn(before) \cup NamesIn(after) :
                  <<k, n>> # <<q, s>> => Count(after, k, n) = Count(before, k, n)
            /\ after = hist
            /\ file = File(TRUE, TRUE, json_dump(hist))

\* A counter that stood at 1 or more was incremented, beside another counter
\* of the same query.
C3_Witness ==
    /\ Recorded
    /\ Count(Persisted(pre), normalize(op.query), op.snippet_name) >= 1
    /\ Len(DictGet(Persisted(file), normalize(op.query))) = 2

\* C4 (as claimed): a call made with contextual learning disabled, with an
\* empty normalized query or with an empty snippet name leaves the history
\* file exactly as it was, whatever it held.
C4_NoOpLeavesFile ==
    (op.kind = "record"
        /\ (~op.enabled \/ normalize(op.query) = <<>> \/ op.snippet_name = <<>>))
    => file = pre

C10_RoundTripStep ==
    (op.kind = "save" /\ op'.kind = "load") => (hist' = hist /\ file' = file)

C10_RoundTrip == [][C10_RoundTripStep]_vars

\* A load returned a history of two queries, one of them a line feed, with
\* two names for one query and a name that holds a quote for the other: only
\* a save has put it there.
C10_Witness ==
    /\ op.kind = "load"
    /\ Len(hist) = 2
    /\ hist[1].k = <<"\n">>
    /\ Len(hist[1].v) = 2
    /\ hist[2].v = <<Entry(<<"\"", "\\">>, 3)>>

(***************************************************************************)
(* The properties of the context engine.                                   *)
(***************************************************************************)
\* C8: _find_relevant_contexts returns an empty mapping for an empty
\* normalized query; otherwise each historical query gets the relevance of
\* the first rule that applies, in the order: equal to the query (1.0); the
\* query is its prefix and is longer than 2 (0.9 * len(query) / len(hist));
\* it is a prefix of the query and is longer than 2 (0.8 * len(hist) /
\* len(query)); both are longer than 3 and their fuzzy ratio exceeds 85
\* (0.7 * ratio / 100).  Exactly the historical queries of relevance > 0 are
\* retained, each with its counters, and every retained relevance lies in
\* (0, 1].
C8_FindRelevant ==
    (op.kind = "search" /\ op.enabled /\ out.snippets # <<>>) =>
        LET query == normalize(op.query)
            history == Persisted(pre)
            found == out.relevant_contexts
            ratio == IF req.fuzz.available THEN req.fuzz.ratio ELSE 0
            Expected(h) ==
                IF h = query THEN <<10, 10>>
                ELSE IF startswith(h, query) /\ Len(query) > 2
                THEN <<9 * Len(query), 10 * Len(h)>>
                ELSE IF startswith(query, h) /\ Len(h) > 2
                THEN <<8 * Len(h), 10 * Len(query)>>
                ELSE IF Len(query) > 3 /\ Len(h) > 3 /\ ratio > 85
                THEN <<7 * ratio, 10 * 100>>
                ELSE <<0, 10>>
        IN  /\ query = <<>> => found = <<>>
            /\ query # <<>> =>
                  /\ KeySet(found) = {h \in KeySet(history) : Expected(h)[1] > 0}
                  /\ \A i \in 1..Len(found) :
                        /\ found[i].v.relevance[1] * Expected(found[i].k)[2]
                              = Expected(found[i].k)[1] * found[i].v.relevance[2]
                        /\ found[i].v.snippets = DictGet(history, found[i].k)
                        /\ found[i].v.relevance[1] > 0
                        /\ found[i].v.relevance[2] > 0
                        /\ found[i].v.relevance[1] <= found[i].v.relevance[2]

\* The query abcd found itself in the history, with relevance 1 though the
\* fuzzy ratio was 100, beside the similar query xbcd with relevance 0.7.
C8_Witness ==
    /\ op.kind = "search"
    /\ normalize(op.query) = <<"a", "b", "c", "d">>
    /\ req.fuzz.available /\ req.fuzz.ratio = 100
    /\ Keys(out.relevant_contexts) = << <<"x", "b", "c", "d">>, <<"a", "b", "c", "d">> >>
    /\ out.relevant_contexts[1].v.relevance = <<700, 1000>>
    /\ out.relevant_contexts[2].v.relevance = <<1, 1>>

(***************************************************************************)
(* The properties of the ranking.                                          *)
(***************************************************************************)
\* C7: a snippet is admitted to the match list if and only if its fused
\* lexical score is at least FUZZY_SCORE_THRESHOLD or the query is the empty
\* string; with the empty query every loaded snippet, that is every snippet
\* of the source that is not deleted, is admitted.
C7_Admission ==
    (op.kind = "search" /\ out.snippets # <<>>) =>
        /\ Len(out.all) = Len(out.snippets)
        /\ \E pos \in [1..Len(out.admitted) -> 1..Len(out.all)] :
              /\ \A i, j \in DOMAIN pos : i < j => pos[i] < pos[j]
              /\ \A i \in DOMAIN pos : out.admitted[i] = out.all[pos[i]]
              /\ \A k \in 1..Len(out.all) :
                    (\E i \in DOMAIN pos : pos[i] = k)
                    <=> (out.all[k].fuzzy_score >= 10 * FUZZY_SCORE_THRESHOLD
                            \/ op.query = <<>>)
        /\ op.query = <<>> =>
              /\ Len(out.admitted) = Len(out.snippets)
              /\ Len(out.snippets)
                    = Cardinality({i \in 1..Len(req.source.records) :
                                      ~req.source.records[i].isDeleted})

\* Of three snippets, one scored 50 and was admitted, one scored 49.7 and
\* was not.
C7_Witness ==
    /\ op.kind = "search"
    /\ op.query # <<>>
    /\ \E i \in 1..Len(out.admitted) : out.admitted[i].fuzzy_score = 500
    /\ \E k \in 1..Len(out.all) :
          /\ out.all[k].fuzzy_score = 497
          /\ \A i \in 1..Len(out.admitted) : out.admitted[i] # out.all[k]

\* C6: the match list holds the admitted snippets in descending order of the
\* pair (context_score, fuzzy_score): of any two of them, the one with the
\* strictly greater context score comes first whatever their lexical scores,
\* and of two with equal context scores the one with the strictly greater
\* lexical score comes first.
C6_Order ==
    op.kind = "search" =>
        /\ Len(out.matches) = Len(out.admitted)
        /\ {out.matches[i] : i \in 1..Len(out.matches)}
              = {out.admitted[i] : i \in 1..Len(out.admitted)}
        /\ \A i, j \in 1..Len(out.matches) :
              LET a == out.matches[i]
                  b == out.matches[j]
                  greater == a.context_score[1] * b.context_score[2]
                                > b.context_score[1] * a.context_score[2]
                  equal == a.context_score[1] * b.context_score[2]
                              = b.context_score[1] * a.context_score[2]
              IN  /\ greater => i < j
                  /\ (equal /\ a.fuzzy_score > b.fuzzy_score) => i < j

\* The first match has a context score and a lower lexical score than the
\* second; the second and the third have no context score and are in the
\* order of their lexical scores, not of the source.
C6_Witness ==
    /\ op.kind = "search"
    /\ Len(out.matches) = 3
    /\ out.matches[1].context_score[1] > 0
    /\ out.matches[2].context_score[1] = 0
    /\ out.matches[3].context_score[1] = 0
    /\ out.matches[1].fuzzy_score < out.matches[2].fuzzy_score
    /\ out.matches[2].fuzzy_score > out.matches[3].fuzzy_score
    /\ out.matches[2].name = <<"C">>

\* C5: smart single result.  With contextual learning enabled, a threshold in
\* (0, 1], the normalized query a key of the history and a match admitted,
\* the result is the one match that comes first in rank order among those
\* whose count c in history[query] has c / total >= threshold, total being
\* the sum of the counts of history[query]; it is the whole ranked list when
\* no match reaches the threshold.
C5_SmartSingleResult ==
    LET threshold == float(req.smart_ratio_str)
        query == normalize(op.query)
    IN  (/\ op.kind = "search" /\ op.enabled
         /\ threshold.ok
         /\ threshold.val[1] > 0 /\ threshold.val[1] <= threshold.val[2]
         /\ HasKey(Persisted(pre), query)
         /\ out.admitted # <<>>) =>
            LET counts == DictGet(Persisted(pre), query)
                total == SumValues(counts)
                reach == {i \in 1..Len(out.matches) :
                            /\ HasKey(counts, out.matches[i].name)
                            /\ DictGet(counts, out.matches[i].name) * threshold.val[2]
                                  >= threshold.val[1] * total}
            IN  IF reach = {} THEN out.final = out.matches
                ELSE \E i \in reach :
                        /\ \A j \in reach : i <= j
                        /\ out.final = <<out.matches[i]>>

\* With the threshold 0.5 and history[abc] = {A: 1, B: 2}, A ranks first (the
\* history of abcd lifts it) and the result is B alone.
C5_Witness ==
    /\ op.kind = "search" /\ op.enabled
    /\ req.smart_ratio_str = <<"0", ".", "5">>
    /\ HasKey(Persisted(pre), normalize(op.query))
    /\ DictGet(Persisted(pre), normalize(op.query))
          = <<Entry(<<"A">>, 1), Entry(<<"B">>, 2)>>
    /\ Len(out.matches) = 3
    /\ out.matches[1].name = <<"A">>
    /\ Len(out.final) = 1
    /\ out.final[1].name = <<"B">>
(***************************************************************************)
(* The specification of the snippet source: keyword queries on every kind  *)
(* of file that mc_db_path may name, under either masscode_version.        *)
(***************************************************************************)
\* The snippets a file may hold: the four above, none, deleted ones only.
SourceRecords ==
    {Snippets, <<>>, <<Snippet(<<"D">>, << <<"a", "b", "c">> >>, TRUE)>>}

\* No file; JSON documents (one of them starts with white space, which
\* json.load accepts); SQLite databases; files that are neither (text that
\* starts with a brace, a damaged database that starts with the SQLite
\* header, anything else).
Sources ==
    {Source(FALSE, "other", "none", <<>>)}
    \cup {Source(TRUE, h, "json", r) : h \in {"brace", "other"}, r \in SourceRecords}
    \cup {Source(TRUE, "sqlite", "sqlite", r) : r \in SourceRecords}
    \cup {Source(TRUE, h, "none", <<>>) : h \in {"brace", "sqlite", "other"}}

SourceFuzz == Fuzz(TRUE, <<100, 50, 0>>, <<100, 50, 0>>, 0)

InitSource == InitOn(DiskFiles)

NextSource ==
    \/ \E enabled \in BOOLEAN, db_path_set \in BOOLEAN, v \in {"v3", "v4"},
          source \in Sources, q \in {<<>>, <<"a">>} :
          KeywordQuery(enabled, <<"0", ".", "5">>, db_path_set, v, source, SourceFuzz, q)
    \/ Return

SpecSource == InitSource /\ [][NextSource]_vars

\* The format the handler detects from the first bytes of the file.
DetectedFormat(source) ==
    IF is_sqlite_file(source) THEN "sqlite"
    ELSE IF is_json_file(source) THEN "json"
    ELSE "unknown"

ThresholdStrings ==
    {<<"0">>, <<"0", ".", "0">>, <<"-", "0">>, <<"+", "0", ".", "0", "0">>,
     <<"-", "0", ".", "5">>, <<"1", ".", "5">>, <<"2">>, <<"1", ".", "0", "1">>,
     <<"x">>, <<>>, <<".">>, <<"0", ",", "5">>, <<"0", ".", "5", ".", "0">>,
     <<" ", "0", ".", "5", " ">>, <<"1", ".", "0">>}

ThresholdFuzz ==
    {Fuzz(TRUE, <<100, 100, 100>>, <<100, 100, 0>>, 0),
     Fuzz(TRUE, <<50, 100, 0>>, <<50, 100, 0>>, 0)}

InitThreshold == InitOn(FilesOf(RankHistories))

NextThreshold ==
    \/ \E enabled \in BOOLEAN, t \in ThresholdStrings, f \in ThresholdFuzz,
          q \in {<<>>, <<" ", "A", "B", "C", " ">>, <<"a", "b", "c", "d">>} :
          KeywordQuery(enabled, t, TRUE, "v3", JsonSource, f, q)
    \/ Return

SpecThreshold == InitThreshold /\ [][NextThreshold]_vars

\* C12: when smart_single_result_ratio is 0, is a number outside [0, 1] or
\* is not a number, the keyword query shows no error and its result is the
\* whole ranked list (cut to MAX_RESULTS), whatever the query and the
\* history: the smart single result does nothing.
C12_ThresholdDisables ==
    LET threshold == float(req.smart_ratio_str)
    IN  (/\ op.kind = "search"
         /\ \/ ~threshold.ok
            \/ threshold.val[1] <= 0
            \/ threshold.val[1] > threshold.val[2])
        => /\ out.final = out.matches
           /\ out.items = SubSeq(out.matches, 1,
                                 IF Len(out.matches) < MAX_RESULTS
                                 THEN Len(out.matches) ELSE MAX_RESULTS)
           /\ out.title = IF out.matches = <<>> THEN "No results" ELSE ""

\* With the threshold written 0 and history[abc] = {A: 4}, the query abc
\* gets the three snippets, A first.
C12_Witness ==
    /\ op.kind = "search" /\ op.enabled
    /\ req.smart_ratio_str = <<"0">>
    /\ HasKey(Persisted(pre), normalize(op.query))
    /\ DictGet(Persisted(pre), normalize(op.query)) = <<Entry(<<"A">>, 4)>>
    /\ Len(out.final) = 3
    /\ out.final[1].name = <<"A">>
    /\ Len(out.items) = MAX_RESULTS

(***************************************************************************)
(* The counters over sequences of calls (specification Spec).              *)
(***************************************************************************)
\* C13 (as claimed): for every normalized query q and snippet name s, the
\* persisted count history[q][s], 0 when absent, never decreases.
C13_NeverDecreasesStep ==
    \A q \in KeySet(Persisted(file)) : \A s \in NamesIn(Persisted(file)) :
        Count(Persisted(file'), q, s) >= Count(Persisted(file), q, s)

C13_CountersNeverDecrease == [][C13_NeverDecreasesStep]_vars

\* C13 (amended): a counter never decreases while its query stays in the
\* history; a query leaves the history, all its counters with it, only when
\* a recording call of a new query finds the history full and the query is
\* the earliest inserted one.
C13_MonotoneStep ==
    \A q \in KeySet(Persisted(file)) :
        IF HasKey(Persisted(file'), q)
        THEN \A s \in NamesIn(Persisted(file)) :
                Count(Persisted(file'), q, s) >= Count(Persisted(file), q, s)
        ELSE /\ op'.kind = "record" /\ op'.saved
             /\ ~HasKey(Persisted(file), normalize(op'.query))
             /\ Len(Persisted(file)) = MAX_HISTORY_QUERIES
             /\ q = Persisted(file)[1].k

C13_MonotoneWhileKept == [][C13_MonotoneStep]_vars

\* A recording call has evicted the earliest query and kept a query whose
\* counters sum to 2 or more.
C13_Witness ==
    /\ Recorded
    /\ Len(Persisted(pre)) = MAX_HISTORY_QUERIES
    /\ ~HasKey(Persisted(file), Persisted(pre)[1].k)
    /\ \E i \in 1..Len(Persisted(file)) :
          /\ SumValues(Persisted(file)[i].v) >= 2
          /\ Persisted(file)[i].v = DictGet(Persisted(pre), Persisted(file)[i].k)

(***************************************************************************)
(* The keyword query and the history file (specification Spec).            *)
(***************************************************************************)
\* C14 (as claimed): a keyword query leaves the history file exactly as it
\* was, whatever the query, the preferences and the state of the file.
C14_SearchLeavesFile == op.kind = "search" => file = pre

\* C14 (amended): a keyword query leaves the history that a load of the file
\* returns as it was, and only a recording call changes it; the query
\* leaves the file itself as it was too, except that with contextual
\* learning enabled and snippets loaded a file that is not JSON is rewritten
\* as {}.
C14_SearchKeepsHistory ==
    /\ op.kind = "search" =>
          /\ Persisted(file) = Persisted(pre)
          /\ file # pre =>
                /\ op.enabled /\ out.snippets # <<>>
                /\ pre.exists /\ pre.utf8 /\ ~json_load(pre.text).ok
                /\ file = File(TRUE, TRUE, json_dump(<<>>))
    /\ Persisted(file) # Persisted(pre) => (op.kind = "record" /\ op.saved)

\* A keyword query with contextual learning enabled has read a history of
\* two queries or more, found a relevant one, and left the file as it was.
C14_Witness ==
    /\ op.kind = "search" /\ op.enabled
    /\ Len(Persisted(pre)) >= 2
    /\ out.relevant_contexts # <<>>
    /\ hist = Persisted(pre)
    /\ file = pre

(***************************************************************************)
(* The specification of the race: NumProcs extension processes, each in    *)
(* ItemEnterEventListener.on_event, run update_context_history on the same *)
(* history file.  A process reads the file in one step and writes it in a  *)
(* later one; nothing locks the file between the two.                      *)
(***************************************************************************)
\* Lines 365-369 of update_context_history in process p: the preference is
\* checked and the history is loaded.
RecordLoad(p, enabled, query, snippet_name) ==
    LET l == load_context_history(file)
    IN  /\ proc[p].pc = "idle"
        /\ file' = IF enabled THEN l.file ELSE file
        /\ proc' = [proc EXCEPT
                       ![p] = IF enabled
                              THEN Proc("loaded", query, snippet_name, l.history, FALSE)
                              ELSE Proc("done", <<>>, <<>>, <<>>, FALSE)]
        /\ UNCHANGED <<pre, op, hist, insertion_order, req, out, reported>>

\* Lines 370-392 in process p: the early return, or the increment, the
\* pruning and the save of the history the process loaded.
RecordSave(p) ==
    LET normalized_query == normalize(proc[p].query)
        returns == normalized_query = <<>> \/ proc[p].snippet_name = <<>>
        history == Prune(Increment(proc[p].history, normalized_query, proc[p].snippet_name))
    IN  /\ proc[p].pc = "loaded"
        /\ file' = IF returns THEN file ELSE save_context_history(file, history)
        /\ proc' = [o \in Procs |->
                      IF o = p
                      THEN IF returns THEN Proc("done", <<>>, <<>>, <<>>, FALSE)
                           ELSE [proc[p] EXCEPT !.pc = "done", !.history = history]
                      ELSE IF ~returns /\ proc[o].pc = "loaded"
                      THEN [proc[o] EXCEPT !.stale = TRUE]
                      ELSE proc[o]]
        /\ UNCHANGED <<pre, op, hist, insertion_order, req, out, reported>>

\* The selections reported: <<enabled, query, snippet_name>>.
RaceCalls ==
    {<<TRUE, <<"a">>, <<"A">>>>, <<TRUE, <<" ", "A">>, <<"B">>>>,
     <<TRUE, <<"b">>, <<"A">>>>, <<TRUE, <<" ">>, <<"A">>>>,
     <<FALSE, <<"a">>, <<"A">>>>}

RaceFiles ==
    {File(TRUE, TRUE, TruncatedText)}
    \cup FilesOf({<<>>, <<Entry(<<"a">>, <<Entry(<<"A">>, 1)>>)>>})

InitRace == InitOn(RaceFiles)

NextRace ==
    \/ \E p \in Procs, c \in RaceCalls : RecordLoad(p, c[1], c[2], c[3])
    \/ \E p \in Procs : RecordSave(p)

SpecRace == InitRace /\ [][NextRace]_vars

\* The processes that have saved a selection.
Savers == {p \in Procs : proc[p].pc = "done" /\ proc[p].snippet_name # <<>>}

\* How many of them selected the snippet s for the query q.
Reported(q, s) ==
    Cardinality({p \in Savers : normalize(proc[p].query) = q /\ proc[p].snippet_name = s})

\* C15: nothing orders the load and the save of one process against those
\* of another.  When all processes are done, the file reflects the
\* selection of at least one process that saved, and no counter exceeds what
\* the selections add up to; it reflects every selection if no process saved
\* a history that another process had made stale.  It need not reflect them
\* all: the state in which one of two selections is lost is reached
\* (C15_Witness).
C15_RaceOutcome ==
    (\A p \in Procs : proc[p].pc = "done") =>
        LET before == Persisted(pre)
            after == Persisted(file)
        IN  /\ \A p \in Savers :
                  LET q == normalize(proc[p].query)
                      s == proc[p].snippet_name
                  IN  /\ Count(after, q, s) >= Count(before, q, s)
                      /\ Count(after, q, s) <= Count(before, q, s) + Reported(q, s)
                      /\ (\A o \in Savers : ~proc[o].stale) =>
                            Count(after, q, s) = Count(before, q, s) + Reported(q, s)
            /\ Savers # {} =>
                  \E p \in Savers :
                      Count(after, normalize(proc[p].query), proc[p].snippet_name)
                          > Count(before, normalize(proc[p].query), proc[p].snippet_name)

\* The lost update: two processes have each saved a selection, and the file
\* holds one selection more than before, not two.
C15_Witness ==
    /\ \A p \in Procs : proc[p].pc = "done"
    /\ Cardinality(Savers) = 2
    /\ Selections(Persisted(file)) = Selections(Persisted(pre)) + 1

(***************************************************************************)
(* The context score.                                                      *)
(***************************************************************************)
\* What the j-th relevant context offers the snippet name:
\* selection_count * relevance * 100.
Candidate(relevant_contexts, j, name) ==
    <<DictGet(relevant_contexts[j].v.snippets, name) * relevant_contexts[j].v.relevance[1] * 100,
      relevant_contexts[j].v.relevance[2]>>

\* The relevant contexts whose counters hold the name.
Holding(relevant_contexts, name) ==
    {j \in 1..Len(relevant_contexts) : HasKey(relevant_contexts[j].v.snippets, name)}

\* C16: the context score of a snippet is the greatest of
\* selection_count * relevance * 100 over the relevant historical queries
\* whose counters hold the snippet's name; it is 0 when there is none and
\* when contextual learning is disabled.  It is never their sum.
C16_ContextScoreIsMax ==
    (op.kind = "search" /\ out.snippets # <<>>) =>
        \A i \in 1..Len(out.all) :
            LET name == out.all[i].name
                score == out.all[i].context_score
                found == out.relevant_contexts
            IN  /\ name = out.snippets[i].name
                /\ ~op.enabled => QEq(score, <<0, 1>>)
                /\ Holding(found, name) = {} => QEq(score, <<0, 1>>)
                /\ Holding(found, name) # {} =>
                      /\ \E j \in Holding(found, name) : QEq(score, Candidate(found, j, name))
                      /\ \A j \in Holding(found, name) : QLeq(Candidate(found, j, name), score)

\* The query abc with the history {abc: {A: 1, B: 2}, abcd: {A: 3, B: 1}}:
\* A is offered 100 by abc and 3 * 0.675 * 100 = 202.5 by abcd, and scores
\* 202.5, not 302.5; B is offered 200 and 67.5 and scores 200.
C16_Witness ==
    /\ op.kind = "search" /\ op.enabled
    /\ normalize(op.query) = <<"a", "b", "c">>
    /\ Keys(out.relevant_contexts) = << <<"a", "b", "c">>, <<"a", "b", "c", "d">> >>
    /\ Len(out.all) = 3
    /\ out.all[1].name = <<"A">> /\ QEq(out.all[1].context_score, <<2025, 10>>)
    /\ out.all[2].name = <<"B">> /\ QEq(out.all[2].context_score, <<200, 1>>)
    /\ out.all[3].name = <<"C">> /\ QEq(out.all[3].context_score, <<0, 1>>)

(***************************************************************************)
(* The specification of learning: selections are recorded and keyword      *)
(* queries ranked, one after the other, on one history file.               *)
(***************************************************************************)
\* The queries recorded: abc, abcd (each relevant to the other) and enough
\* others to evict them.
LearnQueries ==
    {<<"a", "b", "c">>, <<"a", "b", "c", "d">>}
    \cup {<<Letters[i]>> : i \in 1..(MAX_HISTORY_QUERIES - 1)}

\* <<enabled, query, snippet_name>>
LearnCalls ==
    ({TRUE} \X LearnQueries \X {<<"A">>})
    \cup {<<TRUE, <<"a", "b", "c", "d">>, <<"B">>>>,
          <<TRUE, <<" ">>, <<"A">>>>,
          <<FALSE, <<"a", "b", "c">>, <<"A">>>>}

\* <<enabled, smart_ratio_str>>
LearnPreferences ==
    {<<TRUE, <<"0">>>>, <<TRUE, <<"x">>>>, <<TRUE, <<"0", ".", "5">>>>,
     <<FALSE, <<"0">>>>}

\* A is admitted with the lowest score that admits, below B and C; A is not
\* admitted; fuzzywuzzy is missing.
LearnFuzz ==
    {Fuzz(TRUE, <<50, 100, 100>>, <<50, 100, 0>>, 0),
     Fuzz(TRUE, <<0, 100, 100>>, <<0, 100, 0>>, 0),
     Fuzz(FALSE, <<0, 0, 0>>, <<0, 0, 0>>, 0)}

LearnSearches == {<<" ", "A", "B", "C">>, <<"a", "b", "c", "d">>}

InitLearn == InitOn(FilesOf({<<>>}) \cup {NoFile, File(TRUE, TRUE, TruncatedText)})

NextLearn ==
    \/ \E c \in LearnCalls : ItemEnter(c[1], c[2], c[3])
    \/ \E p \in LearnPreferences, f \in LearnFuzz, q \in LearnSearches :
          KeywordQuery(p[1], p[2], TRUE, "v3", JsonSource, f, q)
    \/ Return

SpecLearn == InitLearn /\ [][NextLearn]_vars

\* The smart single result is disabled by the preference.
SmartDisabled ==
    LET threshold == float(req.smart_ratio_str)
    IN  \/ ~threshold.ok
        \/ threshold.val[1] <= 0
        \/ threshold.val[1] > threshold.val[2]

\* C17: with contextual learning enabled and the smart single result
\* disabled, once a selection of the snippet S for the query q has been
\* recorded and q has not been evicted since, a search for q that admits S
\* ranks S ahead of every admitted snippet whose name is in the counters of
\* no relevant historical query.
C17_LearnedRanksAhead ==
    (op.kind = "search" /\ op.enabled /\ SmartDisabled /\ out.snippets # <<>>) =>
        \A r \in reported :
            r[1] = normalize(op.query) =>
                /\ out.final = out.matches
                /\ \A i, j \in 1..Len(out.final) :
                      (/\ out.final[i].name = r[2]
                       /\ Holding(out.relevant_contexts, out.final[j].name) = {})
                          => i < j
                /\ \A j \in 1..Len(out.items) :
                      Holding(out.relevant_contexts, out.items[j].name) = {} =>
                          \A i \in 1..Len(out.final) :
                              out.final[i].name = r[2] =>
                                  i < j /\ out.items[i] = out.final[i]

\* A was selected for abc; the query " ABC" then ranks A, whose lexical score
\* is 50, ahead of C, whose lexical score is 70 and which no relevant query
\* has counted; B, counted for the relevant query abcd, is between them.
C17_Witness ==
    /\ op.kind = "search" /\ op.enabled /\ SmartDisabled
    /\ op.query = <<" ", "A", "B", "C">>
    /\ <<<<"a", "b", "c">>, <<"A">>>> \in reported
    /\ Len(out.final) = 3
    /\ out.final[1].name = <<"A">> /\ out.final[1].fuzzy_score = 500
    /\ out.final[2].name = <<"B">>
    /\ out.final[3].name = <<"C">> /\ out.final[3].fuzzy_score = 700
    /\ Holding(out.relevant_contexts, <<"C">>) = {}
    /\ Holding(out.relevant_contexts, <<"B">>) # {}

=============================================================================
